---- MODULE Spec2Model ----
(***************************************************************************)
(* Log acquisition pipeline of project-nova:                               *)
(*   - LogCollector (backend/app/services/log_collector.py): one           *)
(*     collection cycle over the discovered clusters, with the hourly      *)
(*     dedup check, the remote acquisition, the S3 upload and the hand-off *)
(*   - LogProcessor (backend/app/services/log_processor.py): the batch     *)
(*     state machine PENDING -> PROCESSING -> COMPLETED | FAILED           *)
(*   - execute_sql (backend/app/tools/sql_tools.py): the metadata store    *)
(*     proxy, which never raises and reports a failure as an error result  *)
(* Time is counted in hour buckets.  Every call to an external             *)
(* collaborator (SQL agent, S3, ssh, file system) either succeeds or fails *)
(* and the choice is made by the environment.                              *)
(***************************************************************************)
EXTENDS Integers, Sequences, FiniteSets, TLC

\* ---------------------------------------------------------------- bounds
MaxHour == 1
MaxUploads == 2
MaxEvents == 1
MaxRequests == 1
MaxBody == 2
MaxMembers == 2
MaxLines == 2
MaxCreators == 2

Clusters == {"c1", "c2"}
Hours == 0..MaxHour

\* ------------------------------------------------------------- constants
\* os.path.getsize(local_archive) < 100
MinArchiveSize == 100

\* the two bytes of the gzip signature, b'\x1f\x8b'
GzipMagic == <<31, 139>>
\* a byte that is not part of the signature ('=' of the mspctl banner)
BannerByte == 61
Bytes == {31, 139}

\* log_config.get('severity_filter', ['ERROR', 'WARN', 'FATAL'])
SeverityFilter == {"ERROR", "WARN", "FATAL"}

\* SQL NULL / a column no statement has written
NULL == <<>>
NoMsg == ""
NoStats == <<>>
NoFile == <<>>

VARIABLES
    now,        \* wall clock, as an hour bucket
    cfg,        \* LogCollector.enabled / has_sshpass / prism_ip
    cache,      \* LogCollector._last_collection : cluster -> hour
    cpc,        \* position of collect_from_all_clusters
    clusters,   \* the discovered cluster list of the running cycle
    idx,        \* index of the cluster the loop is at
    archive,    \* local_archive of the cluster the loop is at
    upres,      \* upload_result of the cluster the loop is at
    results,    \* the results dict of the running / last cycle
    ret,        \* how the last cycle ended
    attempt,    \* what the last collect_logs_from_cluster call did
    dedup,      \* what the last dedup check did
    uploads,    \* table log_uploads, row i has upload_id i
    logs,       \* table logs, projected on upload_id
    tasks,      \* process_upload invocations, by upload_id
    handoffs,   \* history: successful hand-offs to the processor
    parser,     \* one parse_archive call: its arguments, position and output
    repair,     \* _strip_mspctl_header calls on one file
    sched,      \* the task collect_logs_periodically
    creators    \* create_upload_record calls of concurrent backend processes

vars == <<now, cfg, cache, cpc, clusters, idx, archive, upres, results, ret,
          attempt, dedup, uploads, logs, tasks, handoffs, parser, repair,
          sched, creators>>

collectorVars == <<cache, cpc, clusters, idx, archive, upres, results, ret,
                   attempt, dedup, handoffs>>

SeqsUpTo(S, n) == UNION {[1..k -> S] : k \in 0..n}

\* ------------------------------------------------------ metadata store
SqlOutcomes == {"ok", "error"}

UploadIds == 1..MaxUploads

\* INSERT INTO log_uploads (s3_key, s3_url, cluster_name, period_start,
\* period_end, status, uploaded_at): every other column stays unwritten
NewUploadRow(key, cluster, t) ==
    [s3_key |-> key, cluster_name |-> cluster, uploaded_at |-> t,
     status |-> "PENDING", error_message |-> NULL,
     total_files |-> NULL, total_lines |-> NULL, errors_found |-> NULL,
     warnings_found |-> NULL, fatals_found |-> NULL, processed_at |-> NULL]

\* the stats dict of process_upload
ZeroStats ==
    [total_files |-> 0, total_lines |-> 0, errors_found |-> 0,
     warnings_found |-> 0, fatals_found |-> 0, events_stored |-> 0]

\* one row after UPDATE log_uploads SET status=.., processed_at=.. [, the
\* five counters when stats is given] [, error_message when it is non-empty]
UpdatedRow(row, status, stats, msg, t) ==
    LET r1 == [row EXCEPT !.status = status, !.processed_at = <<t>>]
        r2 == IF stats # NoStats
              THEN [r1 EXCEPT !.total_files = <<stats[1].total_files>>,
                              !.total_lines = <<stats[1].total_lines>>,
                              !.errors_found = <<stats[1].errors_found>>,
                              !.warnings_found = <<stats[1].warnings_found>>,
                              !.fatals_found = <<stats[1].fatals_found>>]
              ELSE r1
    IN IF msg # NoMsg THEN [r2 EXCEPT !.error_message = <<msg>>] ELSE r2

\* update_upload_status: the result of execute_sql is not looked at, so a
\* failed statement leaves the table as it was and nothing is reported
update_upload_status(tbl, id, status, stats, msg, sql, t) ==
    IF sql = "ok" /\ id \in DOMAIN tbl
    THEN [tbl EXCEPT ![id] = UpdatedRow(tbl[id], status, stats, msg, t)]
    ELSE tbl

\* create_upload_record: INSERT, then SELECT MAX(upload_id) WHERE s3_key=..
\* Returns <<table, upload_id>>, upload_id = 0 standing for None.
MaxIdWithKey(tbl, key) ==
    LET ids == {i \in DOMAIN tbl : tbl[i].s3_key = key}
    IN IF ids = {} THEN 0 ELSE CHOOSE i \in ids : \A j \in ids : j <= i

create_upload_record(tbl, key, cluster, t, sqlInsert, sqlSelect) ==
    IF sqlInsert # "ok" THEN <<tbl, 0>>
    ELSE LET tbl2 == Append(tbl, NewUploadRow(key, cluster, t))
         IN IF sqlSelect = "ok" THEN <<tbl2, MaxIdWithKey(tbl2, key)>>
            ELSE <<tbl2, 0>>

\* store_log_event: INSERT INTO logs; returns result.get('status') != 'error'
store_log_event(rows, sev, sql) ==
    IF sql = "ok" THEN <<Append(rows, sev), TRUE>> ELSE <<rows, FALSE>>

\* ------------------------------------------------------ batch processor
\* severity_filter: the configured allow-list, ['ERROR', 'WARN', 'FATAL']
\* unless the configuration names another one
ProcessorFilters == {SeverityFilter, SeverityFilter \cup {"INFO"}}

NoTask ==
    [pc |-> "none", filter |-> {}, events |-> <<>>, stats |-> ZeroStats,
     tmp |-> FALSE, exc |-> "none", rm |-> "none", yielded |-> 0,
     result |-> "none"]

\* loop.run_in_executor(None, processor.process_upload, upload_id, ...)
ScheduledTask == [NoTask EXCEPT !.pc = "start"]

\* the severity counters go up, events_stored does not
CountedWithoutStored(stats, sev) ==
    LET s1 == stats
    IN IF sev = "ERROR" THEN [s1 EXCEPT !.errors_found = @ + 1]
       ELSE IF sev = "WARN" THEN [s1 EXCEPT !.warnings_found = @ + 1]
       ELSE IF sev = "FATAL" THEN [s1 EXCEPT !.fatals_found = @ + 1]
       ELSE s1

\* stats after one stored event
Counted(stats, sev) ==
    LET s1 == [stats EXCEPT !.events_stored = @ + 1]
    IN IF sev = "ERROR" THEN [s1 EXCEPT !.errors_found = @ + 1]
       ELSE IF sev = "WARN" THEN [s1 EXCEPT !.warnings_found = @ + 1]
       ELSE IF sev = "FATAL" THEN [s1 EXCEPT !.fatals_found = @ + 1]
       ELSE s1

\* f"S3 error: {e}" / f"Processing error: {e}"
ErrorMsg(exc) == IF exc = "ClientError" THEN "S3 error" ELSE "Processing error"

\* process_upload, up to the temp file: status PROCESSING, S3 client,
\* NamedTemporaryFile.  A raise here is outside the inner try/finally.
PU_Begin(id) ==
    /\ tasks[id].pc = "start"
    /\ \E sql \in SqlOutcomes, prep \in {"ok", "raise"} :
        /\ uploads' = update_upload_status(uploads, id, "PROCESSING",
                                           NoStats, NoMsg, sql, now)
        /\ tasks' = [tasks EXCEPT ![id] =
              IF prep = "ok"
              THEN [@ EXCEPT !.pc = "download", !.tmp = TRUE,
                             !.stats = ZeroStats]
              ELSE [@ EXCEPT !.pc = "handler", !.exc = "Exception",
                             !.stats = ZeroStats]]
    /\ UNCHANGED <<creators, sched, repair, parser, now, cfg, logs, collectorVars>>

\* s3.download_file, then the first step of parse_archive (tarfile.open and
\* getmembers), which raises for an unreadable archive; the events that
\* the parser will yield are of the severities of severity_filter
PU_Download(id) ==
    /\ tasks[id].pc = "download"
    /\ \/ \E e \in {"ClientError", "Exception"} :
            tasks' = [tasks EXCEPT ![id] = [@ EXCEPT !.pc = "finally", !.exc = e]]
       \/ \E severity_filter \in ProcessorFilters :
            \E evs \in SeqsUpTo(severity_filter, MaxEvents) :
               tasks' = [tasks EXCEPT ![id] =
                  [@ EXCEPT !.pc = "parse", !.events = evs,
                            !.filter = severity_filter]]
    /\ UNCHANGED <<creators, sched, repair, parser, now, cfg, uploads, logs, collectorVars>>

\* one iteration of the for loop over the parser's events
PU_StoreEvent(id) ==
    /\ tasks[id].pc = "parse"
    /\ tasks[id].events # <<>>
    /\ \E sql \in SqlOutcomes :
        LET ev == Head(tasks[id].events)
            st == store_log_event(logs[id], ev, sql)
        IN /\ logs' = [logs EXCEPT ![id] = st[1]]
           /\ tasks' = [tasks EXCEPT ![id] =
                 [@ EXCEPT !.events = Tail(@), !.yielded = @ + 1,
                           !.stats = IF st[2] THEN Counted(@, ev) ELSE @]]
    /\ UNCHANGED <<creators, sched, repair, parser, now, cfg, uploads, collectorVars>>

\* the event stream is exhausted: update_upload_status(COMPLETED, stats)
PU_Complete(id) ==
    /\ tasks[id].pc = "parse"
    /\ tasks[id].events = <<>>
    /\ \E sql \in SqlOutcomes :
        uploads' = update_upload_status(uploads, id, "COMPLETED",
                                        <<tasks[id].stats>>, NoMsg, sql, now)
    /\ tasks' = [tasks EXCEPT ![id] = [@ EXCEPT !.pc = "finally"]]
    /\ UNCHANGED <<creators, sched, repair, parser, now, cfg, logs, collectorVars>>

\* the temp file is removed after the COMPLETED update only, and not when
\* an exception is on its way to the handlers
PU_FinallyOnSuccessOnly(id) ==
    /\ tasks[id].pc = "finally"
    /\ \E rm \in {"ok", "raise"} :
        tasks' = [tasks EXCEPT ![id] =
            IF @.exc # "none" THEN [@ EXCEPT !.pc = "handler"]
            ELSE IF rm = "raise"
                 THEN [@ EXCEPT !.pc = "handler", !.exc = "Exception",
                                !.rm = rm]
                 ELSE [@ EXCEPT !.pc = "done", !.tmp = FALSE, !.rm = rm,
                                !.result = "stats"]]
    /\ UNCHANGED <<creators, sched, repair, parser, now, cfg, uploads, logs, collectorVars>>

\* finally: os.remove(tmp_path).  It sits inside the outer try, so a raise
\* of os.remove goes to "except Exception"; otherwise a pending exception
\* goes on to its handler and the normal path returns stats.
PU_Finally(id) ==
    /\ tasks[id].pc = "finally"
    /\ \E rm \in {"ok", "raise"} :
        tasks' = [tasks EXCEPT ![id] =
            IF rm = "raise"
            THEN [@ EXCEPT !.pc = "handler", !.exc = "Exception", !.rm = rm]
            ELSE IF @.exc = "none"
                 THEN [@ EXCEPT !.pc = "done", !.tmp = FALSE, !.rm = rm,
                                !.result = "stats"]
                 ELSE [@ EXCEPT !.pc = "handler", !.tmp = FALSE, !.rm = rm]]
    /\ UNCHANGED <<creators, sched, repair, parser, now, cfg, uploads, logs, collectorVars>>

\* the handler marks the record and lets the exception go on to the caller
PU_HandlerReraises(id) ==
    /\ tasks[id].pc = "handler"
    /\ \E sql \in SqlOutcomes :
        uploads' = update_upload_status(uploads, id, "FAILED", NoStats,
                                        ErrorMsg(tasks[id].exc), sql, now)
    /\ tasks' = [tasks EXCEPT ![id] = [@ EXCEPT !.pc = "done", !.result = "raised"]]
    /\ UNCHANGED <<creators, sched, repair, parser, now, cfg, logs, collectorVars>>

\* except ClientError / except Exception:
\* update_upload_status(upload_id, 'FAILED', error_message=error_msg)
PU_Handler(id) ==
    /\ tasks[id].pc = "handler"
    /\ \E sql \in SqlOutcomes :
        uploads' = update_upload_status(uploads, id, "FAILED", NoStats,
                                        ErrorMsg(tasks[id].exc), sql, now)
    /\ tasks' = [tasks EXCEPT ![id] = [@ EXCEPT !.pc = "done", !.result = "error"]]
    /\ UNCHANGED <<creators, sched, repair, parser, now, cfg, logs, collectorVars>>

process_upload(id) ==
    \/ PU_Begin(id)
    \/ PU_Download(id)
    \/ PU_StoreEvent(id)
    \/ PU_Complete(id)
    \/ PU_Finally(id)
    \/ PU_Handler(id)


\* ------------------------------------------------------ retrieved files
\* A file is `pad` banner bytes followed by the bytes of `body`.
PadSizes == {0, 40, 99}
Files == [pad : PadSizes, body : SeqsUpTo(Bytes, MaxBody)]

\* os.path.getsize
Size(f) == f.pad + Len(f.body)

\* the offset is taken inside the payload, the banner not counted
FindInBody(f) ==
    LET hits == {i \in 1..(Len(f.body) - 1) :
                    f.body[i] = GzipMagic[1] /\ f.body[i + 1] = GzipMagic[2]}
    IN IF hits = {} THEN 0 - 1
       ELSE (CHOOSE i \in hits : \A j \in hits : i <= j) - 1

\* data.find(b'\x1f\x8b'): 0-based offset of the first signature, or -1
Find(f) ==
    LET hits == {i \in 1..(Len(f.body) - 1) :
                    f.body[i] = GzipMagic[1] /\ f.body[i + 1] = GzipMagic[2]}
    IN IF hits = {} THEN 0 - 1
       ELSE f.pad + (CHOOSE i \in hits : \A j \in hits : i <= j) - 1

\* the first byte of the signature goes with the banner
StripPastSignature(f) ==
    LET gzip_start == Find(f)
    IN IF gzip_start = 0 - 1 THEN <<f, FALSE>>
       ELSE <<[pad |-> 0,
               body |-> SubSeq(f.body, gzip_start - f.pad + 2, Len(f.body))],
              TRUE>>

\* _strip_mspctl_header: <<file afterwards, return value>>
\* data[gzip_start:] is written back only when gzip_start > 0
_strip_mspctl_header(f) ==
    LET gzip_start == Find(f)
    IN IF gzip_start = 0 - 1 THEN <<f, FALSE>>
       ELSE IF gzip_start > 0
            THEN <<[pad |-> 0,
                    body |-> SubSeq(f.body, gzip_start - f.pad + 1, Len(f.body))],
                   TRUE>>
            ELSE <<f, TRUE>>

\* No header repair has been asked for.
\*   file   : the bytes on disk
\*   data   : what f.read() returned, NoFile before
\*   ret    : the return value, <<>> while the call runs
\*   calls  : how many calls were made on this file
\*   input, first : history: the file before the first call and after it
NoRepair ==
    [pc |-> "idle", file |-> NoFile, data |-> NoFile, ret |-> <<>>,
     calls |-> 0, input |-> NoFile, first |-> NoFile]

repairOthers ==
    <<now, cfg, uploads, logs, tasks, collectorVars, parser, sched, creators>>

\* _strip_mspctl_header(filepath) is called on a retrieved file
SH_Call ==
    /\ repair.pc \in {"idle", "returned"}
    /\ \E f \in Files :
        repair' = [NoRepair EXCEPT !.pc = "open", !.file = <<f>>,
                                   !.input = <<f>>, !.calls = 1]
    /\ UNCHANGED repairOthers

\* it is called once more on the file it has repaired
SH_Again ==
    /\ repair.pc = "returned"
    /\ repair.calls = 1
    /\ repair' = [repair EXCEPT !.pc = "open", !.data = NoFile, !.ret = <<>>,
                                 !.calls = 2]
    /\ UNCHANGED repairOthers

\* with open(filepath, 'rb') as f: data = f.read()
SH_Read ==
    /\ repair.pc = "open"
    /\ repair' = [repair EXCEPT !.pc = "read", !.data = repair.file]
    /\ UNCHANGED repairOthers

\* data.find, the write of data[gzip_start:] and the return
SH_Strip ==
    /\ repair.pc = "read"
    /\ LET r == _strip_mspctl_header(repair.data[1])
       IN repair' = [repair EXCEPT
                        !.pc = "returned",
                        !.file = <<r[1]>>,
                        !.ret = <<r[2]>>,
                        !.first = IF repair.calls = 1 THEN <<r[1]>> ELSE @]
    /\ UNCHANGED repairOthers

\* ------------------------------------------------------ remote collector
\* What the environment does during one collect_logs_from_cluster call.
\*   mkdtemp : tempfile.mkdtemp raises or not
\*   tar     : the tar command left /tmp/nova_logs_<ts>.tar.gz on the node
\*   lsNode  : the listing over ssh shows that file
\*   copy    : the cat-and-redirect left a file on the management host
\*   lsPcvm  : the listing over ssh shows that copy
\*   dl      : _scp_from_prism ran with return code 0
\*   file    : the bytes that arrived in local_archive
CollectEnvs ==
    {e \in [mkdtemp : {"ok", "raise"}, tar : BOOLEAN, lsNode : BOOLEAN,
            copy : BOOLEAN, lsPcvm : BOOLEAN, dl : BOOLEAN, file : Files] :
        /\ e.lsNode => e.tar
        /\ e.lsPcvm => e.copy
        \* the steps the call does not get to are left at their defaults
        /\ e.mkdtemp = "raise" => ~e.tar
        /\ ~e.lsNode => ~e.copy
        /\ ~e.lsPcvm => ~e.dl
        /\ ~e.dl => e.file = [pad |-> 0, body |-> <<>>]}

NoAttempt ==
    [cluster |-> "", raised |-> FALSE, created |-> FALSE, copied |-> FALSE,
     rmNode |-> FALSE, rmPcvm |-> FALSE, retrieved |-> FALSE,
     signature |-> FALSE, result |-> NoFile]

\* collect_logs_from_cluster: what was created remotely, which remove
\* commands were issued, whether a file was retrieved and whether it holds
\* the gzip signature, and the returned archive (NoFile for None)
collect_logs_from_cluster(c, e) ==
    LET a0 == [NoAttempt EXCEPT !.cluster = c]
    IN IF e.mkdtemp = "raise" THEN [a0 EXCEPT !.raised = TRUE]
       ELSE LET a1 == [a0 EXCEPT !.created = e.tar]
            IN IF ~e.lsNode THEN a1                     \* "Archive not created on node"
               ELSE LET a2 == [a1 EXCEPT !.copied = e.copy, !.rmNode = TRUE]
                    IN IF ~e.lsPcvm THEN a2             \* "No logs archive found"
                       ELSE IF ~(e.dl /\ Size(e.file) > 0) THEN a2   \* download failed
                       ELSE LET a3 == [a2 EXCEPT !.rmPcvm = TRUE,
                                                 !.retrieved = TRUE,
                                                 !.signature =
                                                     Find(e.file) # 0 - 1]
                            IN IF Size(e.file) < MinArchiveSize THEN a3
                               ELSE [a3 EXCEPT !.result =
                                        <<_strip_mspctl_header(e.file)[1]>>]

NoDedup ==
    [cluster |-> "", hour |-> 0, memHit |-> FALSE, dbQueried |-> FALSE,
     dbRecord |-> FALSE, dbHit |-> FALSE, skipped |-> FALSE]

NewResults ==
    [clusters_discovered |-> 0, clusters_collected |-> 0,
     clusters_failed |-> 0, total_uploads |-> 0, details |-> <<>>,
     message |-> ""]

Detail(c, status, note, uid) ==
    [object_store |-> c, status |-> status, note |-> note, upload_id |-> uid]

\* what discovery returns: some of the object stores, in listing order
ClusterLists == {<<>>, <<"c1">>, <<"c2">>, <<"c1", "c2">>}

Configs == [enabled : BOOLEAN, has_sshpass : BOOLEAN, prism_ip : BOOLEAN]

\* the cluster the loop is at
Cur == clusters[idx]

\* results["details"].append(detail) at the end of an iteration, then the
\* next iteration, or the summary is returned after the last one
NextCluster(res) ==
    /\ results' = res
    /\ IF idx < Len(clusters)
       THEN /\ idx' = idx + 1
            /\ cpc' = "dedup"
            /\ ret' = ret
       ELSE /\ idx' = 0
            /\ cpc' = "idle"
            /\ ret' = "summary"

\* the failure is reported in the details only, not counted
ClusterFailedUncounted(res, c, note) ==
    [res EXCEPT !.details = Append(@, Detail(c, "failed", note, 0))]

\* status failed, the error text, clusters_failed += 1, details.append
ClusterFailed(res, c, note) ==
    [res EXCEPT !.clusters_failed = @ + 1,
                !.details = Append(@, Detail(c, "failed", note, 0))]

\* only the flag and the address are looked at
PreconditionsWithoutSshpass(c) == c.enabled /\ c.prism_ip

\* self.enabled, self.has_sshpass and self.prism_ip, checked up front
PreconditionsHold(c) == c.enabled /\ c.has_sshpass /\ c.prism_ip

\* collect_from_all_clusters up to the loop: preconditions and discovery
CycleStart ==
    /\ cpc = "idle"
    /\ attempt' = NoAttempt
    /\ dedup' = NoDedup
    /\ archive' = NoFile
    /\ upres' = NoFile
    /\ IF ~PreconditionsHold(cfg)
       THEN /\ results' = [NewResults EXCEPT !.message =
                    IF ~cfg.enabled THEN "Log collection disabled"
                    ELSE IF ~cfg.has_sshpass THEN "sshpass not installed"
                    ELSE "Prism Central IP not configured"]
            /\ ret' = "early"
            /\ clusters' = <<>>
            /\ UNCHANGED <<cpc, idx>>
       ELSE \/ /\ results' = [NewResults EXCEPT !.message = "discovery failed"]
               /\ ret' = "early"
               /\ clusters' = <<>>
               /\ UNCHANGED <<cpc, idx>>
            \/ \E cl \in ClusterLists :
                /\ clusters' = cl
                /\ IF cl = <<>>
                   THEN /\ results' = [NewResults EXCEPT !.message = "No clusters found"]
                        /\ ret' = "early"
                        /\ UNCHANGED <<cpc, idx>>
                   ELSE /\ results' = [NewResults EXCEPT
                                          !.clusters_discovered = Len(cl)]
                        /\ ret' = "none"
                        /\ cpc' = "dedup"
                        /\ idx' = 1
    /\ UNCHANGED <<creators, sched, repair, parser, now, cfg, cache, uploads, logs, tasks, handoffs>>

\* SELECT upload_id FROM log_uploads WHERE cluster_name = c AND
\* uploaded_at >= current_hour_epoch LIMIT 1: is there such a row
HasRecordThisHour(tbl, c, hour) ==
    \E i \in DOMAIN tbl : tbl[i].cluster_name = c /\ tbl[i].uploaded_at >= hour

\* self._last_collection[object_store_name] = datetime.now()
CacheWrite(m, c, t) == [x \in DOMAIN m \cup {c} |-> IF x = c THEN t ELSE m[x]]

\* the hourly dedup check at the head of an iteration
Dedup ==
    /\ cpc = "dedup"
    /\ LET c == Cur
           memHit == c \in DOMAIN cache /\ cache[c] >= now
           rec == HasRecordThisHour(uploads, c, now)
       IN IF memHit
          THEN /\ dedup' = [cluster |-> c, hour |-> now, memHit |-> TRUE,
                            dbQueried |-> FALSE, dbRecord |-> rec,
                            dbHit |-> FALSE, skipped |-> TRUE]
               /\ cache' = cache
               /\ NextCluster([results EXCEPT !.details = Append(@,
                      Detail(c, "skipped", "Already collected this hour", 0))])
          ELSE \E sql \in SqlOutcomes :
                 LET dbHit == sql = "ok" /\ rec
                 IN /\ dedup' = [cluster |-> c, hour |-> now, memHit |-> FALSE,
                                 dbQueried |-> TRUE, dbRecord |-> rec,
                                 dbHit |-> dbHit, skipped |-> dbHit]
                    /\ IF dbHit
                       THEN /\ cache' = CacheWrite(cache, c, now)
                            /\ NextCluster([results EXCEPT !.details = Append(@,
                                   Detail(c, "skipped",
                                          "Already collected this hour (DB check)", 0))])
                       ELSE /\ cache' = cache
                            /\ cpc' = "collect"
                            /\ UNCHANGED <<results, idx, ret>>
    /\ attempt' = NoAttempt
    /\ UNCHANGED <<creators, sched, repair, parser, now, cfg, clusters, archive, upres, uploads, logs, tasks,
                   handoffs>>


\* if not local_archive: status failed, "Collection failed", continue
CollectionFailed(res, c) ==
    NextCluster(ClusterFailed(res, c, "Collection failed"))

\* the exception leaves collect_from_all_clusters instead of being caught
ClusterExceptionPropagates(res, c) ==
    /\ results' = res
    /\ idx' = 0
    /\ cpc' = "idle"
    /\ ret' = "raised"

\* except Exception as e: status failed, error str(e); the loop goes on
ClusterException(res, c) ==
    NextCluster(ClusterFailed(res, c, "exception"))

\* local_archive = self.collect_logs_from_cluster(...)
Collect ==
    /\ cpc = "collect"
    /\ Len(uploads) < MaxUploads
    /\ \E e \in CollectEnvs :
        LET a == collect_logs_from_cluster(Cur, e)
        IN /\ attempt' = a
           /\ IF a.raised
              THEN /\ archive' = NoFile
                   /\ ClusterException(results, Cur)
              ELSE IF a.result = NoFile
              THEN /\ archive' = NoFile
                   /\ CollectionFailed(results, Cur)
              ELSE /\ archive' = a.result
                   /\ cpc' = "upload"
                   /\ UNCHANGED <<results, idx, ret>>
    /\ dedup' = NoDedup
    /\ UNCHANGED <<creators, sched, repair, parser, now, cfg, cache, clusters, upres, uploads, logs, tasks,
                   handoffs>>

\* s3_key = logs/<object_store_name>/<Y/m/d/H>/<filename>
S3Key(c, hour) == <<c, hour>>

\* upload_result = self.upload_to_s3(local_archive, object_store_name), the
\* local temp dir is removed, and "S3 upload failed" when it returned None
Upload ==
    /\ cpc = "upload"
    /\ archive' = NoFile
    /\ \/ /\ upres' = <<[s3_key |-> S3Key(Cur, now)]>>
          /\ cpc' = "trigger"
          /\ UNCHANGED <<results, idx, ret>>
       \/ /\ upres' = NoFile
          /\ NextCluster(ClusterFailed(results, Cur, "S3 upload failed"))
    /\ attempt' = NoAttempt
    /\ UNCHANGED <<creators, sched, repair, parser, now, cfg, cache, clusters, dedup, uploads, logs, tasks,
                   handoffs>>

\* trigger_processing: create the record, and when an id came back schedule
\* process_upload on the executor.  [uploads, tasks, upload_id], 0 for None.
trigger_processing(tbl, tsk, key, c, t, sqlInsert, sqlSelect) ==
    LET r == create_upload_record(tbl, key, c, t, sqlInsert, sqlSelect)
        upload_id == r[2]
    IN [uploads |-> r[1],
        tasks |-> IF upload_id # 0
                  THEN [tsk EXCEPT ![upload_id] = ScheduledTask]
                  ELSE tsk,
        upload_id |-> upload_id]

\* upload_id = await self.trigger_processing(...), then status success, the
\* counters and the last-collection time, whatever upload_id is
Trigger ==
    /\ cpc = "trigger"
    /\ \E sqlInsert \in SqlOutcomes, sqlSelect \in SqlOutcomes :
        LET c == Cur
            t == trigger_processing(uploads, tasks, upres[1].s3_key, c, now,
                                    sqlInsert, sqlSelect)
        IN /\ uploads' = t.uploads
           /\ tasks' = t.tasks
           /\ handoffs' = IF t.upload_id # 0
                          THEN handoffs \cup {[cluster |-> c, hour |-> now,
                                               upload_id |-> t.upload_id]}
                          ELSE handoffs
           /\ cache' = CacheWrite(cache, c, now)
           /\ NextCluster([results EXCEPT
                  !.clusters_collected = @ + 1,
                  !.total_uploads = @ + 1,
                  !.details = Append(@, Detail(c, "success", "", t.upload_id))])
    /\ upres' = NoFile
    /\ UNCHANGED <<creators, sched, repair, parser, now, cfg, clusters, archive, attempt, dedup, logs>>

\* ------------------------------------------------------------ environment
\* the clock passes into the next hour bucket
Tick ==
    /\ now < MaxHour
    /\ now' = now + 1
    /\ UNCHANGED <<creators, sched, repair, parser, cfg, uploads, logs, tasks, collectorVars>>

EmptyCache == [x \in {} |-> 0]

\* asyncio.create_task(collect_logs_periodically()) has not run a step yet.
\*   pc   : "off", "delay" (initial sleep), "running" (awaiting
\*          run_log_collection), "sleeping" (awaiting the interval sleep),
\*          "returned" (the coroutine returned), "dead" (an exception left it)
\*   last : how the last cycle ended
NoScheduler == [pc |-> "off", last |-> "none"]

\* The process is restarted: a new LogCollector with an empty
\* _last_collection, no cycle in progress, the executor's threads gone.
\* The metadata store keeps what it has.
Restart ==
    /\ cache' = EmptyCache
    /\ cpc' = "idle"
    /\ clusters' = <<>>
    /\ idx' = 0
    /\ archive' = NoFile
    /\ upres' = NoFile
    /\ results' = NewResults
    /\ ret' = "none"
    /\ attempt' = NoAttempt
    /\ dedup' = NoDedup
    /\ tasks' = [i \in UploadIds |->
                    IF tasks[i].pc \in {"none", "done", "killed"}
                    THEN tasks[i]
                    ELSE [NoTask EXCEPT !.pc = "killed"]]
    /\ sched' = NoScheduler
    /\ UNCHANGED <<creators, repair, parser, now, cfg, uploads, logs, handoffs>>

\* ------------------------------------------------------------- log parser
\* A stripped line, by what the scanner's regular expressions see in it:
\*   blank  : nothing is left after line.strip()
\*   prefix : "I" "W" "E" "F" for a glog head (E20260107 18:56:50...),
\*            "ts" for a leading timestamp, "" for neither
\*   word   : the severity keyword the text holds, "" for none
\*   len    : its length in characters
\*   run    : how many such lines follow each other (continuation lines
\*            only; the others come one at a time)
Line(prefix, word) ==
    [blank |-> FALSE, prefix |-> prefix, word |-> word, len |-> 20, run |-> 1]
BlankLine == [blank |-> TRUE, prefix |-> "", word |-> "", len |-> 0, run |-> 1]

\* an entry line longer than any message may be
LongEntry == [Line("E", "") EXCEPT !.len = 600]

\* more continuation lines than a stack trace takes
LongTrace == [Line("", "") EXCEPT !.len = 30, !.run = 51]

Lines ==
    {BlankLine, Line("E", ""), Line("I", "ERROR"), Line("ts", "WARN"),
     Line("", "ERROR"), LongEntry, LongTrace}

Contents == SeqsUpTo(Lines, MaxLines)

Severities == {"FATAL", "ERROR", "WARN", "INFO"}

\* the allow-lists in use: the default of parse_archive, the default of
\* process_upload, and one that lets everything through
Filters == {{"ERROR", "FATAL"}, SeverityFilter, Severities}

\* _detect_severity: the glog head decides, else the first keyword found in
\* the order FATAL, ERROR, WARN, INFO, else INFO
_detect_severity(line) ==
    IF line.prefix = "F" THEN "FATAL"
    ELSE IF line.prefix = "E" THEN "ERROR"
    ELSE IF line.prefix = "W" THEN "WARN"
    ELSE IF line.prefix = "I" THEN "INFO"
    ELSE IF line.word # "" THEN line.word
    ELSE "INFO"

\* _is_new_log_entry: a glog head or a leading timestamp
_is_new_log_entry(line) == line.prefix # ""

\* len(stack_trace_lines) < 50
StackCap == 50

NoEvent == <<>>

\* LogParser(max_message_length=500, max_stack_trace_length=1000)
MaxMessageLength == 500
MaxStackTraceLength == 1000

\* stack_trace_lines.append(line) for n lines of length len in a row, each
\* under "len(stack_trace_lines) < 50".  stack is len(stack_trace_lines),
\* joined the length of '\n'.join(stack_trace_lines).
RECURSIVE AppendStack(_, _, _)
AppendStack(ev, len, n) ==
    IF n = 0 THEN ev
    ELSE AppendStack(IF ev.stack < StackCap
                     THEN [ev EXCEPT !.stack = @ + 1,
                                     !.joined = IF ev.stack = 0 THEN len
                                                ELSE @ + 1 + len]
                     ELSE ev,
                     len, n - 1)

\* the stack trace goes out as it was joined
EventUntruncated(ev) ==
    [severity |-> ev.severity, message |-> ev.message,
     stack_trace |-> IF ev.stack > 0 THEN <<ev.joined>> ELSE NULL,
     stack_lines |-> ev.stack]

\* the event as it is yielded: if stack_trace_lines, stack_trace is
\* '\n'.join(stack_trace_lines)[:max_stack_trace_length].  Lengths stand
\* for the strings.
EventOf(ev) ==
    [severity |-> ev.severity, message |-> ev.message,
     stack_trace |-> IF ev.stack > 0
                     THEN <<IF ev.joined > MaxStackTraceLength
                            THEN MaxStackTraceLength ELSE ev.joined>>
                     ELSE NULL,
     stack_lines |-> ev.stack]

\* one iteration of the for loop of _parse_log_content over a line that is
\* not blank (or over a run of continuation lines): the event held
\* afterwards, and whether one was yielded
ScanLine(cur, line, line_num, filter) ==
    LET severity == _detect_severity(line)
    IN IF _is_new_log_entry(line)
       THEN [cur |-> IF severity \in filter
                     THEN <<[severity |-> severity, line |-> line_num,
                             message |-> IF line.len > MaxMessageLength
                                         THEN MaxMessageLength ELSE line.len,
                             stack |-> 0, joined |-> 0]>>
                     ELSE NoEvent,
             yielded |-> cur # NoEvent /\ cur[1].severity \in filter]
       ELSE [cur |-> IF cur # NoEvent
                     THEN <<AppendStack(cur[1], line.len, line.run)>>
                     ELSE cur,
             yielded |-> FALSE]

\* A member path, by what _identify_log_file looks at:
\*   dir     : the component directory the path goes through, "" for none
\*   mark    : a severity marker inside the file name, "" for none
\*   keyword : the pod whose LOG_FILE_PATTERNS entry the file name holds
\*   ext     : what the file name ends with
Dirs == {"", "oc", "objectsbrowser"}
Marks == {"", ".error.", ".warning."}
Keywords == {"", "OC"}
Exts == {"log", "error", "out"}
Paths == [dir : Dirs, mark : Marks, keyword : Keywords, ext : Exts]

NoPod == ""

\* component_from_path
Component(path) ==
    IF path.dir = "atlas" THEN "Atlas"
    ELSE IF path.dir = "ms" THEN "MS"
    ELSE IF path.dir = "oc" THEN "OC"
    ELSE IF path.dir = "zookeeper" THEN "Zookeeper"
    ELSE IF path.dir = "bucketstools" THEN "Buckets"
    ELSE IF path.dir = "objectsbrowser" THEN "ObjectsBrowser"
    ELSE NoPod

\* _identify_log_file: the pod, NoPod for (None, None)
_identify_log_file(path) ==
    LET has_error_severity == path.mark \in {".error.", ".fatal."}
        component_from_path == Component(path)
    IN IF has_error_severity
       THEN IF component_from_path # NoPod THEN component_from_path
            ELSE IF path.keyword # "" THEN path.keyword
            ELSE "Unknown"
       ELSE IF path.ext \in {"error", "fatal"}
            THEN IF component_from_path # NoPod THEN component_from_path
                 ELSE "Unknown"
       ELSE IF path.ext = "out" /\ component_from_path # NoPod
            THEN component_from_path
       ELSE NoPod

\* a regular file under some path, or a member that is not one (isfile()
\* is false and its path is never looked at)
Members ==
    [isfile : {TRUE}, path : Paths]
        \cup {[isfile |-> FALSE,
               path |-> [dir |-> "", mark |-> "", keyword |-> "", ext |-> "log"]]}
NoMember == <<>>

\* the number of new-entry lines of a content whose severity is let through
NewEntryLines(content, filter) ==
    Cardinality({i \in DOMAIN content :
                    /\ ~content[i].blank
                    /\ _is_new_log_entry(content[i])
                    /\ _detect_severity(content[i]) \in filter})

\* No parse_archive call is in progress.
\*   left, member, pod : members not yet visited, the one last visited and
\*                       what _identify_log_file said of it
\*   content, pos, cur : the text being scanned, the line the loop is at,
\*                       current_event
\*   here, out, last   : events yielded from this member / by the call,
\*                       and the one yielded last from this member
\*   expect, recognized, memberErr, afterErr : history of the call
IdleParser ==
    [pc |-> "idle", filter |-> {}, left |-> 0, member |-> NoMember,
     pod |-> NoPod, content |-> <<>>, pos |-> 0, cur |-> NoEvent,
     here |-> 0, out |-> 0, expect |-> 0, recognized |-> FALSE,
     memberErr |-> FALSE, afterErr |-> FALSE, last |-> NoEvent]

otherVars ==
    <<now, cfg, uploads, logs, tasks, collectorVars, repair, sched, creators>>

\* parse_archive(archive_path, s3_url, severity_filter) is called on an
\* archive of some number of members
PA_Call ==
    /\ parser.pc \in {"idle", "done", "raised"}
    /\ \E f \in Filters, n \in 0..MaxMembers :
        parser' = [IdleParser EXCEPT !.pc = "open", !.filter = f, !.left = n]
    /\ UNCHANGED otherVars

\* tarfile.open(archive_path, 'r:gz') and tar.getmembers(): an archive that
\* cannot be opened or enumerated raises through "except Exception: raise"
PA_Open ==
    /\ parser.pc = "open"
    /\ \E r \in {"ok", "raise"} :
        parser' = [parser EXCEPT !.pc = IF r = "ok" THEN "members" ELSE "raised"]
    /\ UNCHANGED otherVars

\* the head of the loop over the members: isfile(), _identify_log_file
PA_Member ==
    /\ parser.pc = "members"
    /\ parser.left > 0
    /\ \E m \in Members :
        LET pod == IF m.isfile THEN _identify_log_file(m.path) ELSE NoPod
        IN parser' = [parser EXCEPT
                         !.left = @ - 1,
                         !.member = <<m>>,
                         !.pod = pod,
                         !.content = <<>>, !.pos = 0, !.cur = NoEvent,
                         !.here = 0, !.last = NoEvent,
                         !.recognized = @ \/ pod # NoPod,
                         !.pc = IF pod # NoPod THEN "read" ELSE "members"]
    /\ UNCHANGED otherVars

\* a member that cannot be read ends the whole parse with its exception
PA_ReadErrorAborts ==
    /\ parser.pc = "read"
    /\ \/ parser' = [parser EXCEPT !.pc = "raised", !.member = NoMember,
                                   !.memberErr = TRUE]
       \/ parser' = [parser EXCEPT !.pc = "members", !.member = NoMember]
       \/ \E c \in Contents :
            parser' = [parser EXCEPT
                          !.pc = "lines", !.member = NoMember,
                          !.content = c, !.pos = 1,
                          !.expect = @ + NewEntryLines(c, parser.filter)]
    /\ UNCHANGED otherVars

\* tar.extractfile(member), f.read(), gunzip and decode inside the member's
\* try: a raise is printed and the loop continues; None continues as well
PA_Read ==
    /\ parser.pc = "read"
    /\ \/ parser' = [parser EXCEPT !.pc = "members", !.member = NoMember,
                                   !.memberErr = TRUE]
       \/ parser' = [parser EXCEPT !.pc = "members", !.member = NoMember]
       \/ \E c \in Contents :
            parser' = [parser EXCEPT
                          !.pc = "lines", !.member = NoMember,
                          !.content = c, !.pos = 1,
                          !.expect = @ + NewEntryLines(c, parser.filter)]
    /\ UNCHANGED otherVars

\* one iteration of the for loop of _parse_log_content
PA_Line ==
    /\ parser.pc = "lines"
    /\ parser.pos <= Len(parser.content)
    /\ LET line == parser.content[parser.pos]
           s == ScanLine(parser.cur, line, parser.pos, parser.filter)
       IN parser' =
            IF line.blank THEN [parser EXCEPT !.pos = @ + 1]
            ELSE [parser EXCEPT
                     !.pos = @ + 1,
                     !.cur = s.cur,
                     !.here = IF s.yielded THEN @ + 1 ELSE @,
                     !.out = IF s.yielded THEN @ + 1 ELSE @,
                     !.last = IF s.yielded THEN <<EventOf(parser.cur[1])>>
                              ELSE @,
                     !.afterErr = @ \/ (s.yielded /\ parser.memberErr)]
    /\ UNCHANGED otherVars

\* the end of the content is reached and the event still held is dropped
PA_FlushDropsLast ==
    /\ parser.pc = "lines"
    /\ parser.pos > Len(parser.content)
    /\ parser' = [parser EXCEPT !.pc = "members", !.cur = NoEvent]
    /\ UNCHANGED otherVars

\* the end of the content: the event still held is yielded, and the loop
\* over the members goes on
PA_Flush ==
    /\ parser.pc = "lines"
    /\ parser.pos > Len(parser.content)
    /\ LET last == parser.cur # NoEvent
                   /\ parser.cur[1].severity \in parser.filter
       IN parser' = [parser EXCEPT
                        !.pc = "members",
                        !.cur = NoEvent,
                        !.here = IF last THEN @ + 1 ELSE @,
                        !.out = IF last THEN @ + 1 ELSE @,
                        !.last = IF last THEN <<EventOf(parser.cur[1])>>
                                 ELSE @,
                        !.afterErr = @ \/ (last /\ parser.memberErr)]
    /\ UNCHANGED otherVars

\* the members are exhausted: the generator ends
PA_End ==
    /\ parser.pc = "members"
    /\ parser.left = 0
    /\ parser' = [parser EXCEPT !.pc = "done"]
    /\ UNCHANGED otherVars

\* ------------------------------------------------------ periodic scheduler
\* how run_log_collection can end: the summary of the per-cluster loop, an
\* early summary that only carries a message, or an exception
CycleOutcomes == {"summary", "early", "raised"}

\* if not is_auto_collect_enabled(): return
SC_Start ==
    /\ sched.pc = "off"
    /\ \E auto_collect \in BOOLEAN :
        sched' = [sched EXCEPT !.pc = IF auto_collect THEN "delay" ELSE "returned"]
    /\ UNCHANGED <<creators, repair, parser, now, cfg, uploads, logs, tasks,
                   collectorVars>>

\* the initial sleep is over; if not collector.has_sshpass: return;
\* otherwise the loop is entered and the first cycle begins
SC_Delay ==
    /\ sched.pc = "delay"
    /\ sched' = [sched EXCEPT !.pc = IF cfg.has_sshpass THEN "running" ELSE "returned"]
    /\ UNCHANGED <<creators, repair, parser, now, cfg, uploads, logs, tasks,
                   collectorVars>>

\* an exception of the cycle is not caught and ends the task
SC_CycleEndRaiseEscapes ==
    /\ sched.pc = "running"
    /\ \E outcome \in CycleOutcomes :
        sched' = [sched EXCEPT !.pc = IF outcome = "raised" THEN "dead" ELSE "sleeping",
                               !.last = outcome]
    /\ UNCHANGED <<creators, repair, parser, now, cfg, uploads, logs, tasks,
                   collectorVars>>

\* try: results = await run_log_collection(..) except Exception: print(..)
\* Either way control reaches await asyncio.sleep(interval_seconds).
SC_CycleEnd ==
    /\ sched.pc = "running"
    /\ \E outcome \in CycleOutcomes :
        sched' = [sched EXCEPT !.pc = "sleeping", !.last = outcome]
    /\ UNCHANGED <<creators, repair, parser, now, cfg, uploads, logs, tasks,
                   collectorVars>>

\* the interval sleep is over: while True starts the next cycle
SC_Wake ==
    /\ sched.pc = "sleeping"
    /\ sched' = [sched EXCEPT !.pc = "running"]
    /\ UNCHANGED <<creators, repair, parser, now, cfg, uploads, logs, tasks,
                   collectorVars>>

\* ------------------------------------------------ concurrent creations
\* Backend processes that share the metadata store; each runs one
\* create_upload_record call, statement by statement.
Creators == 1..MaxCreators

\* the keys the callers pass
CreationKeys == {S3Key("c1", 0), S3Key("c2", 0)}

\* No call yet.
\*   key : the s3_key argument
\*   row : history: the upload_id the store gave to the inserted row, 0 if none
\*   ret : the returned upload_id, 0 for None
NoCreation == [pc |-> "idle", key |-> <<>>, row |-> 0, ret |-> 0]

otherThanCreators ==
    <<now, cfg, logs, tasks, collectorVars, parser, repair, sched>>

\* create_upload_record(s3_key=..) is entered
CR_Call(p) ==
    /\ creators[p].pc = "idle"
    /\ \E k \in CreationKeys :
        creators' = [creators EXCEPT ![p] = [@ EXCEPT !.pc = "insert", !.key = k]]
    /\ UNCHANGED <<uploads, otherThanCreators>>

\* INSERT INTO log_uploads ..; return None on an error result
CR_Insert(p) ==
    /\ creators[p].pc = "insert"
    /\ Len(uploads) < MaxUploads
    /\ \E sql \in SqlOutcomes :
        IF sql = "ok"
        THEN /\ uploads' = Append(uploads,
                              NewUploadRow(creators[p].key, "unknown", now))
             /\ creators' = [creators EXCEPT ![p] =
                   [@ EXCEPT !.pc = "select", !.row = Len(uploads) + 1]]
        ELSE /\ uploads' = uploads
             /\ creators' = [creators EXCEPT ![p] = [@ EXCEPT !.pc = "returned"]]
    /\ UNCHANGED otherThanCreators

\* SELECT MAX(upload_id) FROM log_uploads WHERE s3_key = ..; the first cell
\* of the first row is returned, None when the result has no rows
CR_Select(p) ==
    /\ creators[p].pc = "select"
    /\ \E sql \in SqlOutcomes :
        creators' = [creators EXCEPT ![p] =
            [@ EXCEPT !.pc = "returned",
                      !.ret = IF sql = "ok"
                              THEN MaxIdWithKey(uploads, creators[p].key)
                              ELSE 0]]
    /\ UNCHANGED <<uploads, otherThanCreators>>

Init ==
    /\ now = 0
    /\ cfg \in Configs
    /\ cache = EmptyCache
    /\ cpc = "idle"
    /\ clusters = <<>>
    /\ idx = 0
    /\ archive = NoFile
    /\ upres = NoFile
    /\ results = NewResults
    /\ ret = "none"
    /\ attempt = NoAttempt
    /\ dedup = NoDedup
    /\ uploads = <<>>
    /\ logs = [i \in UploadIds |-> <<>>]
    /\ tasks = [i \in UploadIds |-> NoTask]
    /\ handoffs = {}
    /\ parser = IdleParser
    /\ repair = NoRepair
    /\ sched = NoScheduler
    /\ creators = [p \in Creators |-> NoCreation]

\* POST /api/logs/upload: create the record and, when an id came back, add
\* process_upload as a background task; HTTP 500 otherwise
upload_logs ==
    /\ Len(uploads) < MaxRequests
    /\ \E sqlInsert \in SqlOutcomes, sqlSelect \in SqlOutcomes :
        LET c == "unknown"      \* cluster_name=request.cluster_name or "unknown"
            t == trigger_processing(uploads, tasks, S3Key(c, now), c, now,
                                    sqlInsert, sqlSelect)
        IN /\ uploads' = t.uploads
           /\ tasks' = t.tasks
    /\ UNCHANGED <<creators, sched, repair, parser, now, cfg, logs, collectorVars>>

ProcessUpload == \E id \in UploadIds : process_upload(id)

\* the collector with its environment; the executor's threads are not run
NextCollector ==
    \/ CycleStart
    \/ Dedup
    \/ Collect
    \/ Upload
    \/ Trigger
    \/ Tick
    \/ Restart

SpecCollector == Init /\ [][NextCollector]_vars

\* the processor with its environment; records come from the upload endpoint
NextProcessor ==
    \/ upload_logs
    \/ ProcessUpload
    \/ Restart

\* the collector's configuration plays no part in the processor
InitProcessor == Init /\ cfg = [enabled |-> TRUE, has_sshpass |-> TRUE, prism_ip |-> TRUE]

SpecProcessor == InitProcessor /\ [][NextProcessor]_vars

\* header repair on any file, once and once more
NextRepair ==
    \/ SH_Call
    \/ SH_Again
    \/ SH_Read
    \/ SH_Strip

SpecRepair == InitProcessor /\ [][NextRepair]_vars

\* one parse_archive call after the other, on any archive
NextParser ==
    \/ PA_Call
    \/ PA_Open
    \/ PA_Member
    \/ PA_Read
    \/ PA_Line
    \/ PA_Flush
    \/ PA_End

SpecParser == InitProcessor /\ [][NextParser]_vars

\* record creations of several processes on one store
NextCreate ==
    \E p \in Creators :
        \/ CR_Call(p)
        \/ CR_Insert(p)
        \/ CR_Select(p)

SpecCreate == InitProcessor /\ [][NextCreate]_vars

\* a process_upload that fails before the download (_get_s3_client or
\* NamedTemporaryFile raises) and goes through its exception handler
FailingUpload ==
    \E id \in UploadIds :
        \/ PU_Begin(id)
        \/ PU_Handler(id)

\* the scheduler task beside the upload endpoint and the executor's threads
\* in which process_upload fails
NextScheduler ==
    \/ SC_Start
    \/ SC_Delay
    \/ SC_CycleEnd
    \/ SC_Wake
    \/ upload_logs
    \/ FailingUpload

\* Every blocking call of a cycle carries a timeout and asyncio.sleep ends,
\* so a cycle that runs ends and a sleep that was started is woken.
\* of the collector's configuration the scheduler reads has_sshpass only
InitScheduler == Init /\ cfg.enabled /\ cfg.prism_ip

SpecScheduler ==
    InitScheduler /\ [][NextScheduler]_vars
        /\ WF_vars(SC_CycleEnd) /\ WF_vars(SC_Wake)

TypeOK ==
    /\ now \in Hours
    /\ cpc \in {"idle", "dedup", "collect", "upload", "trigger"}
    /\ ret \in {"none", "early", "summary", "raised"}
    /\ Len(uploads) <= MaxUploads
    /\ \A i \in DOMAIN uploads :
          uploads[i].status \in {"PENDING", "PROCESSING", "COMPLETED", "FAILED"}

\* ================================================================ claims
Terminal == {"COMPLETED", "FAILED"}

Returned(id) == tasks[id].pc = "done" /\ id \in DOMAIN uploads

\* C1: every process_upload invocation that has returned leaves the
\* persisted status of its record at COMPLETED or FAILED, never at PENDING
\* or PROCESSING.
C1_EndsTerminal ==
    \A id \in UploadIds : Returned(id) => uploads[id].status \in Terminal

\* C2: over any sequence of collection cycles, restarts included, a cluster
\* is handed off to the processor (record created and processing scheduled)
\* at most once per hour bucket.
C2_OneHandoffPerHour ==
    \A h1, h2 \in handoffs :
        (h1.cluster = h2.cluster /\ h1.hour = h2.hour) => h1 = h2

\* C3: once the persisted status of a record is COMPLETED or FAILED, no
\* step of the system changes it again.
C3_TerminalIsFinal ==
    [][\A i \in DOMAIN uploads :
          uploads[i].status \in Terminal => uploads'[i].status = uploads[i].status]_vars

\* C4: when process_upload has ended in FAILED, the record carries the
\* error message and the counters accumulated before the failure.
C4_FailedCarriesCounters ==
    \A id \in UploadIds :
        (Returned(id) /\ tasks[id].result = "error" /\ uploads[id].status = "FAILED")
        => /\ uploads[id].error_message # NULL
           /\ uploads[id].errors_found = <<tasks[id].stats.errors_found>>
           /\ uploads[id].warnings_found = <<tasks[id].stats.warnings_found>>
           /\ uploads[id].fatals_found = <<tasks[id].stats.fatals_found>>

\* C5: when the retrieved file holds no gzip signature, the collection of
\* that cluster has failed: collect_logs_from_cluster returns no archive and
\* the loop has no archive to upload.
C5_NoSignatureFails ==
    (attempt.retrieved /\ ~attempt.signature)
    => (attempt.result = NoFile /\ archive = NoFile)

\* C6: an entry of the last-collection cache is written only in a step that
\* hands the cluster off successfully, or in a dedup check in which the
\* metadata store reported a record of the current hour.
CacheWritten(c) ==
    c \in DOMAIN cache' /\ (c \notin DOMAIN cache \/ cache'[c] # cache[c])

C6_CacheOnlyAfterHandoff ==
    [][\A c \in Clusters :
          CacheWritten(c) =>
              \/ \E h \in handoffs' \ handoffs : h.cluster = c
              \/ (cpc = "dedup" /\ dedup'.cluster = c /\ dedup'.dbHit)]_vars

\* C7: when collect_logs_from_cluster has returned, the remove command was
\* issued for the temp file it created on the target cluster and for the
\* copy it made on the management host.
C7_RemoteCleanup ==
    /\ attempt.created => attempt.rmNode
    /\ attempt.copied => attempt.rmPcvm

\* C8: a returned batch with an event whose persist failed has ended on
\* the failure path (FAILED with a message), and a COMPLETED batch has every
\* yielded event persisted.
C8_PersistFailureFails ==
    \A id \in UploadIds :
        Returned(id) =>
            /\ Len(logs[id]) < tasks[id].yielded => tasks[id].result = "error"
            /\ uploads[id].status = "COMPLETED" => Len(logs[id]) = tasks[id].yielded

\* C9: collect_from_all_clusters never raises for a cluster's failure, the
\* loop reaches every discovered cluster in turn whatever happened to the
\* earlier ones, and the returned summary has one settled detail entry per
\* discovered cluster, in order.
C9_ClusterIsolation ==
    /\ ret # "raised"
    /\ cpc # "idle" => Len(results.details) = idx - 1
    /\ ret = "summary" =>
          /\ Len(results.details) = Len(clusters)
          /\ \A i \in DOMAIN clusters :
                /\ results.details[i].object_store = clusters[i]
                /\ results.details[i].status \in {"skipped", "failed", "success"}

\* C9 witness: a cycle returned its summary after the first cluster raised,
\* the second failed to be acquired or uploaded, or went through
C9_Witness ==
    /\ ret = "summary"
    /\ Len(results.details) = 2
    /\ results.details[1].status = "failed"
    /\ results.details[1].note = "exception"
    /\ results.details[2].status = "success"

\* C10: a cache hit skips the cluster without a query to the metadata store;
\* on a cache miss a persisted record of that cluster in the current hour
\* skips the cluster and leaves a cache entry for that hour.
C10_TwoTierDedup ==
    dedup.cluster # "" =>
        /\ dedup.memHit => (dedup.skipped /\ ~dedup.dbQueried)
        /\ (~dedup.memHit /\ dedup.dbRecord) =>
              /\ dedup.skipped
              /\ dedup.cluster \in DOMAIN cache
              /\ cache[dedup.cluster] >= dedup.hour

\* C11: when the line scanner has gone through a content, the number of
\* events it yielded equals the number of new-entry lines whose detected
\* severity is in the allow-list; continuation lines, blank lines and
\* filtered-out entries yield nothing.
C11_ExactCount ==
    (parser.pc = "members" /\ parser.pos > 0)
    => parser.here = NewEntryLines(parser.content, parser.filter)

C11_Witness ==
    /\ parser.pc = "members"
    /\ parser.filter = SeverityFilter
    /\ parser.content = <<Line("I", "ERROR"), Line("E", "")>>
    /\ parser.pos = 3
    /\ parser.here = 1

\* C12: with the collection flag off, sshpass missing or no management-host
\* address, collect_from_all_clusters returns a summary with a message, zero
\* counts and no detail entries; it does not raise, does not discover
\* clusters, attempts no cluster and writes no cache entry.
C12_FailFast ==
    (~cfg.enabled \/ ~cfg.has_sshpass \/ ~cfg.prism_ip) =>
        /\ cpc = "idle"
        /\ clusters = <<>>
        /\ cache = EmptyCache
        /\ attempt = NoAttempt
        /\ dedup = NoDedup
        /\ uploads = <<>>
        /\ handoffs = {}
        /\ ret \in {"none", "early"}
        /\ ret = "early" =>
              /\ results.message \in {"Log collection disabled",
                                      "sshpass not installed",
                                      "Prism Central IP not configured"}
              /\ results.clusters_discovered = 0
              /\ results.clusters_collected = 0
              /\ results.clusters_failed = 0
              /\ results.details = <<>>

C12_Witness ==
    /\ cfg.enabled
    /\ ~cfg.has_sshpass
    /\ ret = "early"
    /\ results.message = "sshpass not installed"

\* C13: a record whose status is PENDING or PROCESSING has no processed_at
\* value; processed_at is written only together with COMPLETED or FAILED.
C13_ProcessedAtTerminal ==
    \A i \in DOMAIN uploads :
        uploads[i].status \in {"PENDING", "PROCESSING"}
        => uploads[i].processed_at = NULL

\* C14: when process_upload has finished, the counters written to the record
\* come from the run: total_files counts the members scanned and
\* total_lines the lines scanned, so a run that stored events from the
\* archive reports at least one file and at least as many lines as events.
C14_CountersFromRun ==
    \A id \in UploadIds :
        (Returned(id) /\ uploads[id].status = "COMPLETED"
                      /\ tasks[id].yielded > 0)
        => /\ uploads[id].total_files # NULL
           /\ uploads[id].total_files[1] >= 1
           /\ uploads[id].total_lines # NULL
           /\ uploads[id].total_lines[1] >= tasks[id].yielded

\* error_message is set exactly on the FAILED records
ErrorMessageIffFailed ==
    \A i \in DOMAIN uploads :
        uploads[i].error_message # NULL <=> uploads[i].status = "FAILED"

\* C15: in every state of the metadata store a record has an error_message
\* exactly when its status is FAILED, and a record whose processing failed
\* in the download reads back as FAILED with an error_message and with
\* processed_at set.
C15_ErrorMessageOnFailed ==
    /\ ErrorMessageIffFailed
    /\ \A id \in UploadIds :
          (Returned(id) /\ tasks[id].exc = "ClientError")
          => /\ uploads[id].status = "FAILED"
             /\ uploads[id].error_message # NULL
             /\ uploads[id].processed_at # NULL

\* C16: process_upload never lets an exception reach its caller: whichever
\* step fails, the temp-file cleanup included, the call ends by returning
\* the stats or an error value.
C16_NoExceptionLeaves ==
    \A id \in UploadIds :
        /\ tasks[id].result # "raised"
        /\ tasks[id].pc = "done" => tasks[id].result \in {"stats", "error"}

C16_Witness ==
    \E id \in UploadIds :
        /\ tasks[id].pc = "done"
        /\ tasks[id].rm = "raise"
        /\ tasks[id].result = "error"

C18_UploadedArchiveValidated ==
    archive # NoFile => Size(archive[1]) >= MinArchiveSize

\* the component directories of the claim and the component of each
ComponentDirs == {"oc", "ms", "atlas", "zookeeper", "bucketstools"}

ComponentOfDir(dir) ==
    IF dir = "oc" THEN "OC"
    ELSE IF dir = "ms" THEN "MS"
    ELSE IF dir = "atlas" THEN "Atlas"
    ELSE IF dir = "zookeeper" THEN "Zookeeper"
    ELSE "Buckets"

\* C19: a regular-file member under a component directory is parsed with
\* that component; without such a directory, a member whose file name holds
\* a component keyword or a severity marker is parsed; only a member with
\* neither is skipped.
C19_TwoStageRelevance ==
    (parser.member # NoMember /\ parser.member[1].isfile) =>
        LET path == parser.member[1].path
        IN /\ path.dir \in ComponentDirs
                => parser.pod = ComponentOfDir(path.dir)
           /\ (path.dir \notin ComponentDirs
                    /\ (path.keyword # "" \/ path.mark # ""))
                => parser.pod # NoPod
           /\ parser.pod = NoPod
                => (path.dir \notin ComponentDirs
                        /\ path.keyword = "" /\ path.mark = "")

\* C20: an error on one archive member does not end parse_archive: every
\* member is still visited and the events of every member that could be
\* read are yielded; the call raises only when the archive cannot be opened
\* or enumerated, before any member is visited; an archive without a
\* recognized member yields nothing and ends without error.
C20_MemberErrorIsolated ==
    /\ parser.pc = "raised"
          => (~parser.memberErr /\ ~parser.recognized
                /\ parser.member = NoMember /\ parser.out = 0)
    /\ parser.pc = "done"
          => (parser.left = 0 /\ parser.out = parser.expect)
    /\ (parser.pc = "done" /\ ~parser.recognized) => parser.out = 0

C20_Witness ==
    /\ parser.pc = "done"
    /\ parser.memberErr
    /\ parser.afterErr
    /\ parser.out = parser.expect

\* C21: every event the parser yields has a message of at most
\* max_message_length characters, a stack trace of at most
\* max_stack_trace_length characters, and a stack trace built from at most
\* 50 continuation lines, however long the lines and however many the
\* continuation lines.
C21_EventBounded ==
    parser.last # NoEvent =>
        /\ parser.last[1].message <= MaxMessageLength
        /\ parser.last[1].stack_lines <= StackCap
        /\ parser.last[1].stack_trace # NULL
              => parser.last[1].stack_trace[1] <= MaxStackTraceLength

C21_Witness ==
    /\ parser.content = <<LongEntry, LongTrace>>
    /\ parser.last # NoEvent
    /\ parser.last[1].message = MaxMessageLength
    /\ parser.last[1].stack_lines = StackCap
    /\ parser.last[1].stack_trace = <<MaxStackTraceLength>>

\* the bytes of a file, and where its first gzip signature starts
ToBytes(f) ==
    [i \in 1..Size(f) |-> IF i <= f.pad THEN BannerByte ELSE f.body[i - f.pad]]

SignatureAt(b, i) ==
    i + 1 <= Len(b) /\ b[i] = GzipMagic[1] /\ b[i + 1] = GzipMagic[2]

HasSignature(b) == \E i \in DOMAIN b : SignatureAt(b, i)

FirstSignature(b) ==
    CHOOSE i \in DOMAIN b :
        SignatureAt(b, i) /\ \A j \in 1..(i - 1) : ~SignatureAt(b, j)

InLoop == sched.pc \in {"running", "sleeping"}

\* C24: once the loop of collect_logs_periodically has started it is never
\* left, and after every cycle (summary, early summary or exception) the
\* next cycle eventually starts, whatever the background process_upload
\* invocations do.
C24_SchedulerNeverStops ==
    /\ [](InLoop => []InLoop)
    /\ \A o \in CycleOutcomes :
          (sched.pc = "sleeping" /\ sched.last = o) ~> (sched.pc = "running")
    /\ (sched.pc = "running") ~> (sched.pc = "sleeping")

C24_Witness ==
    /\ sched.pc = "running"
    /\ sched.last = "raised"
    /\ \E id \in UploadIds : tasks[id].result = "error"

LegalTransitions ==
    {<<"PENDING", "PROCESSING">>, <<"PROCESSING", "COMPLETED">>,
     <<"PROCESSING", "FAILED">>}

\* C25: the persisted status of a record changes only from PENDING to
\* PROCESSING, from PROCESSING to COMPLETED and from PROCESSING to FAILED,
\* and it becomes COMPLETED only when the invocation has consumed every
\* event of the parser.
C25_OnlyLegalTransitions ==
    [][\A id \in DOMAIN uploads :
          uploads'[id].status # uploads[id].status =>
             /\ <<uploads[id].status, uploads'[id].status>> \in LegalTransitions
             /\ uploads'[id].status = "COMPLETED" =>
                   (tasks[id].pc = "parse" /\ tasks[id].events = <<>>)]_vars

\* the loop is about to call upload_to_s3 with an archive that was retrieved
\* for the current cluster and in which the header repair found the signature
UploadGated ==
    cpc = "upload" =>
        /\ archive # NoFile
        /\ attempt.cluster = Cur
        /\ attempt.retrieved
        /\ attempt.signature

\* the loop is about to call trigger_processing with the key of a
\* successful upload for the current cluster
HandOffGated ==
    cpc = "trigger" =>
        (upres # NoFile /\ \E h \in Hours : upres[1].s3_key = S3Key(Cur, h))

\* a record appears only in the hand-off step, and process_upload is
\* scheduled only for the id that the record creation returned
SchedulingGated ==
    /\ uploads' # uploads =>
          (cpc = "trigger" /\ Len(uploads') = Len(uploads) + 1)
    /\ \A id \in UploadIds :
          (tasks'[id].pc = "start" /\ tasks[id].pc # "start") =>
              /\ cpc = "trigger"
              /\ id = Len(uploads')
              /\ Len(uploads') = Len(uploads) + 1
              /\ uploads'[id].s3_key = upres[1].s3_key

\* C26: in one cluster's pipeline an upload to object storage happens only
\* after that cluster's archive was retrieved and repaired successfully, a
\* record is created and processing scheduled only after the upload
\* succeeded, and processing is scheduled only with the id the record
\* creation returned.
C26_PipelineGated ==
    /\ [](UploadGated /\ HandOffGated)
    /\ [][SchedulingGated]_vars

RECURSIVE CountStatus(_, _)
CountStatus(details, status) ==
    IF details = <<>> THEN 0
    ELSE (IF Head(details).status = status THEN 1 ELSE 0)
         + CountStatus(Tail(details), status)

\* C27: when collect_from_all_clusters returns after the per-cluster loop,
\* every discovered cluster has exactly one detail entry, with status
\* skipped, failed or success; collected + failed + skipped entries equals
\* clusters_discovered; and total_uploads equals clusters_collected.
C27_SummaryConsistent ==
    ret = "summary" =>
        /\ results.clusters_discovered = Len(clusters)
        /\ Len(results.details) = Len(clusters)
        /\ \A i \in DOMAIN clusters :
              /\ results.details[i].object_store = clusters[i]
              /\ results.details[i].status \in {"skipped", "failed", "success"}
        /\ results.clusters_collected + results.clusters_failed
              + CountStatus(results.details, "skipped")
                 = results.clusters_discovered
        /\ results.clusters_collected = CountStatus(results.details, "success")
        /\ results.total_uploads = results.clusters_collected

\* a summary of two clusters with one skipped, or one failed and one collected
C27_Witness ==
    /\ ret = "summary"
    /\ Len(clusters) = 2
    /\ results.clusters_failed = 1
    /\ \/ CountStatus(results.details, "skipped") = 1
       \/ results.clusters_collected = 1

\* C28: a create_upload_record call that returns an id returns the id of the
\* row it inserted itself, so two calls never return the same id, also when
\* they use the same s3_key and both inserts come before either lookup.
C28_ReturnsOwnRow ==
    /\ \A p \in Creators :
          (creators[p].pc = "returned" /\ creators[p].ret # 0) =>
              creators[p].ret = creators[p].row
    /\ \A p, q \in Creators :
          (p # q /\ creators[p].ret # 0 /\ creators[q].ret # 0) =>
              creators[p].ret # creators[q].ret

\* the step reports the current cluster as failed
FailureStep ==
    /\ cpc \in {"collect", "upload", "trigger"}
    /\ Len(results'.details) = Len(results.details) + 1
    /\ results'.details[Len(results'.details)].status = "failed"

\* the failure touched neither the cluster's cache entry nor the table
FailureFrame ==
    LET c == Cur
    IN /\ (c \in DOMAIN cache') = (c \in DOMAIN cache)
       /\ c \in DOMAIN cache => cache'[c] = cache[c]
       /\ uploads' = uploads

\* after the step neither tier of the dedup check has anything on the
\* cluster for the current hour
NotSkippedAfterwards ==
    LET c == Cur
    IN /\ ~(c \in DOMAIN cache' /\ cache'[c] >= now')
       /\ ~HasRecordThisHour(uploads', c, now')

\* C29: a cluster whose acquisition or upload failed, or whose pipeline
\* raised, keeps its last-collection cache entry as it was and gets no
\* upload record, so that an invocation later in the same hour does not
\* skip it.
C29_FailureLeavesNoTrace ==
    [][FailureStep => (FailureFrame /\ NotSkippedAfterwards)]_vars

SeverityCounters(stats) ==
    stats.errors_found + stats.warnings_found + stats.fatals_found

\* the invocation is under way or has returned
Entered(id) ==
    tasks[id].pc \in {"download", "parse", "finally", "handler", "done"}

CountersInStep ==
    \A id \in UploadIds :
        Entered(id) =>
            /\ tasks[id].stats.events_stored = Len(logs[id])
            /\ SeverityCounters(tasks[id].stats) <= tasks[id].stats.events_stored
            /\ "INFO" \notin tasks[id].filter =>
                  SeverityCounters(tasks[id].stats) = tasks[id].stats.events_stored

\* an event was taken from the parser and its insert reported failure
PersistFailed(id) ==
    /\ tasks[id].pc = "parse"
    /\ tasks'[id].yielded = tasks[id].yielded + 1
    /\ logs'[id] = logs[id]

\* C30: at every point of process_upload events_stored is the number of
\* events whose insert reported success, a failed insert changes no
\* counter, and errors_found + warnings_found + fatals_found is at most
\* events_stored, and equal to it when the allow-list holds no INFO.
C30_RunningCounters ==
    /\ []CountersInStep
    /\ [][\A id \in UploadIds :
             PersistFailed(id) => tasks'[id].stats = tasks[id].stats]_vars

\* an INFO event was stored and counted in events_stored only
C30_Witness ==
    \E id \in UploadIds :
        /\ tasks[id].pc = "done"
        /\ tasks[id].stats.events_stored = 1
        /\ SeverityCounters(tasks[id].stats) = 0
        /\ tasks[id].yielded = 1

====
